---- MODULE Spec2Model ----
(***************************************************************************)
(* GeminiRepository.findClosestDartFiles (gemini-repository.ts): the       *)
(* incremental retrieval of the Dart files closest to a query, with the    *)
(* codehash cache kept in memory and in one JSON file per workspace.       *)
(*                                                                         *)
(* One call is a sequence of steps, one per `await` of the source; between *)
(* two steps the 5 s timer of the call, the user's edits and (under        *)
(* SpecOverlap) the steps of another call on the same instance may run.    *)
(***************************************************************************)
EXTENDS Integers, Sequences, FiniteSets, TLC

\* ------------------------------------------------------------------ bounds
NumFiles  == 3    \* paths the workspace may hold
batchSize == 2    \* files per batch (the source uses 100, scaled down)
MaxEvents == 3    \* calls started, file edits and restarts in one behaviour
MaxLiveEvents == 2    \* the same, in the behaviours checked for liveness
MaxDim    == 3    \* length of the vectors euclideanDistance is tried on
MaxText   == 3    \* length of the texts computeCodehash is tried on
MaxInvocations == 3   \* invocations of the registered commands
TopK      == 2    \* distances.slice(0, 5): files kept (the source uses 5, scaled down)

Paths == 1..NumFiles
Calls == {1, 2}

\* Characters of a text: WS is any white space, the others are not.
WS     == 0
Fence  == 9
Hdr(p) == 10 + p

\* document.getText() of a file; Absent: the file is not in the workspace.
Absent == <<99>>
Codes  == {<<1>>, <<WS, 1>>, <<2>>}

\* The vectors embedContent may return for a query.
Queries == {<<5, 22>>, <<6, 24>>}

VARIABLES
  apiKey,          \* this.apiKey is a non-empty string
  codehashCache,   \* this.codehashCache
  disk,            \* the file at cacheFilePath
  files,           \* the workspace: path -> code, or Absent
  call,            \* the activations of findClosestDartFiles
  prev,            \* history: the call that settled last on this instance
  produced,        \* history: the entries this instance has computed
  events,          \* calls started, edits and restarts so far
  vectors,         \* euclideanDistance alone: its arguments and its outcome
  hashing,         \* computeCodehash alone: a text and an edited copy of it
  commands         \* command-manager.ts: the commands and their invocations

\* The state of the repository, and the state of the parts checked alone.
repo   == <<apiKey, codehashCache, disk, files, call, prev, produced, events>>
others == <<vectors, hashing, commands>>
vars   == <<repo, others>>

\* ------------------------------------------------------------ pure helpers
RECURSIVE SumSeq(_)
SumSeq(s) == IF s = <<>> THEN 0 ELSE Head(s) + SumSeq(Tail(s))

IsWS(ch) == ch = WS

\* `File name: ..\nFile path: ..\nFile code:\n\n```dart\n${code}```\n\n------\n\n`
RenderText(p, code) == <<Hdr(p), WS>> \o code \o <<Fence, WS>>

\* Mutant: the digest is taken of the text as it is.
computeCodehash_KeepsWhitespace(fileContents) == fileContents

\* fileContents.replace(/\s+/g, '') then sha256: the digest is modelled as
\* the normalized content itself (a collision-free digest).
computeCodehash(fileContents) == SelectSeq(fileContents, LAMBDA ch : ~IsWS(ch))

\* The remote embedding of a document text: a fixed function of the text.
EmbedDocument(text) == <<Len(text), SumSeq(text)>>

NoEntry == [has |-> FALSE, codehash |-> <<>>, embedding |-> <<>>]
EmptyCache == [p \in Paths |-> NoEntry]

\* Object.keys(this.codehashCache).length === 0
CacheIsEmpty(cache) == \A p \in Paths : ~cache[p].has

\* JSON.stringify(this.codehashCache): the entries, one per key.
RECURSIVE StringifyFrom(_, _)
StringifyFrom(cache, p) ==
  IF p > NumFiles THEN <<>>
  ELSE (IF cache[p].has
        THEN <<[path |-> p, codehash |-> cache[p].codehash,
                embedding |-> cache[p].embedding]>>
        ELSE <<>>) \o StringifyFrom(cache, p + 1)

JSONStringify(cache) == StringifyFrom(cache, 1)

\* JSON.parse(cacheData) of a file JSON.stringify wrote.
JSONParse(data) ==
  [p \in Paths |->
     IF \E i \in 1..Len(data) : data[i].path = p
     THEN LET i == CHOOSE j \in 1..Len(data) : data[j].path = p
          IN [has |-> TRUE, codehash |-> data[i].codehash,
              embedding |-> data[i].embedding]
     ELSE NoEntry]

NoFile      == [kind |-> "absent",  data |-> <<>>]
CorruptFile == [kind |-> "corrupt", data |-> <<>>]
JsonFile(d) == [kind |-> "json",    data |-> d]

\* No workspace folder is open: there is no path for the file, the getter
\* cacheFilePath throws 'No workspace folders found.' (lines 83-93).
NoWorkspace == [kind |-> "nopath",  data |-> <<>>]
WorkspaceOpen == disk.kind # "nopath"

\* fs.existsSync(this.cacheFilePath), inside the try of loadCache: FALSE
\* also when the getter threw and the catch has logged the error.
ExistsSync == disk.kind \notin {"absent", "nopath"}

\* What loadCache met: the kind of the file, or no path to look at.
FoundByLoad(sawFile) ==
  IF sawFile THEN disk.kind ELSE IF WorkspaceOpen THEN "absent" ELSE "nopath"

\* loadCache: the cache after readFile and JSON.parse; a failure of either
\* is caught and leaves the cache as it was.
LoadedCache(sawFile) ==
  IF sawFile /\ disk.kind = "json" THEN JSONParse(disk.data) ELSE codehashCache

\* vscode.workspace.findFiles('**/*.dart'), in enumeration order.
RECURSIVE FindFilesFrom(_)
FindFilesFrom(p) ==
  IF p > NumFiles THEN <<>>
  ELSE (IF files[p] # Absent THEN <<p>> ELSE <<>>) \o FindFilesFrom(p + 1)

FindFiles == FindFilesFrom(1)

\* One element of fileContents (lines 170-180).
FileContent(p) ==
  LET text == RenderText(p, files[p])
  IN [text |-> text, path |-> p, codehash |-> computeCodehash(text)]

ReadFiles(dartFiles) == [i \in 1..Len(dartFiles) |-> FileContent(dartFiles[i])]

\* Mutant: the cached codehash compared with the text instead of its codehash.
NeedsUpdate_ComparesText(cache, fc) ==
  ~cache[fc.path].has \/ cache[fc.path].codehash # fc.text

\* The filter of lines 183-186.
NeedsUpdate(cache, fc) ==
  ~cache[fc.path].has \/ cache[fc.path].codehash # fc.codehash

FilesToUpdate(cache, fileContents) ==
  SelectSeq(fileContents, LAMBDA fc : NeedsUpdate(cache, fc))

\* Mutant: the slice ends one element early.
Slice_EndsEarly(s, from, to) ==
  [j \in 1..((IF to - 1 < Len(s) THEN to - 1 ELSE Len(s)) - from) |-> s[from + j]]

\* filesToUpdate.slice(i, i + batchSize)
Slice(s, from, to) ==
  [j \in 1..((IF to < Len(s) THEN to ELSE Len(s)) - from) |-> s[from + j]]

RECURSIVE BatchesFrom(_, _)

\* Mutant: a do-while, which pushes a first batch before it tests.
BatchesFrom_PushesFirst(s, i) ==
  <<Slice(s, i, i + batchSize)>> \o
    (IF i + batchSize >= Len(s) THEN <<>> ELSE BatchesFrom(s, i + batchSize))

\* for (let i = 0; i < filesToUpdate.length; i += batchSize) batches.push(...)
BatchesFrom(s, i) ==
  IF i >= Len(s) THEN <<>>
  ELSE <<Slice(s, i, i + batchSize)>> \o BatchesFrom(s, i + batchSize)

\* Mutant: the loop starts at index 1.
Batches_FromOne(filesToUpdate) == BatchesFrom(filesToUpdate, 1)

\* const batches = []; for (let i = 0; ...) (lines 189-193).
Batches(filesToUpdate) == BatchesFrom(filesToUpdate, 0)

\* Mutant: the cache is replaced by the entries of the batch.
CacheWithBatch_DropsOthers(cache, batch) ==
  [p \in Paths |->
     IF \E i \in 1..Len(batch) : batch[i].path = p
     THEN LET i == CHOOSE j \in 1..Len(batch) : batch[j].path = p
          IN [has |-> TRUE, codehash |-> batch[i].codehash,
              embedding |-> EmbedDocument(batch[i].text)]
     ELSE NoEntry]

\* batchEmbeddings.embeddings.forEach(...): the cache after one batch.
CacheWithBatch(cache, batch) ==
  [p \in Paths |->
     IF \E i \in 1..Len(batch) : batch[i].path = p
     THEN LET i == CHOOSE j \in 1..Len(batch) : batch[j].path = p
          IN [has |-> TRUE, codehash |-> batch[i].codehash,
              embedding |-> EmbedDocument(batch[i].text)]
     ELSE cache[p]]

\* NaN, the value of `number - undefined`; the distances proper are >= 0.
NaN == -1

\* euclideanDistance(a, b): the sum of the squares; Math.sqrt, which keeps
\* the order, the zero and NaN, is left out.  The loop runs over a.length:
\* past the end of b, b[n] is undefined and the sum becomes NaN; what b
\* holds past the end of a is never read.
RECURSIVE SumSquares(_, _, _)
SumSquares(a, b, n) ==
  IF n > Len(a) THEN 0
  ELSE IF n > Len(b) THEN NaN
  ELSE LET rest == SumSquares(a, b, n + 1)
       IN IF rest = NaN THEN NaN ELSE (a[n] - b[n]) * (a[n] - b[n]) + rest

euclideanDistance(a, b) == SumSquares(a, b, 1)

\* Mutant: the comparator subtracts the other way round.
SortCompare_Reversed(x, y) == IF x = NaN \/ y = NaN THEN 0 ELSE y - x

\* (a, b) => a.distance - b.distance, as Array.prototype.sort reads it: a
\* comparator that answers NaN is taken to answer +0.
SortCompare(x, y) == IF x = NaN \/ y = NaN THEN 0 ELSE x - y

RECURSIVE InsertSorted(_, _)

\* Mutant: an element is put before the elements it compares equal to.
InsertSorted_BeforeEqual(sorted, d) ==
  IF sorted = <<>> THEN <<d>>
  ELSE IF SortCompare(Head(sorted).distance, d.distance) < 0
       THEN <<Head(sorted)>> \o InsertSorted(Tail(sorted), d)
       ELSE <<d>> \o sorted

\* distances.sort((a, b) => a.distance - b.distance): a stable sort.
InsertSorted(sorted, d) ==
  IF sorted = <<>> THEN <<d>>
  ELSE IF SortCompare(Head(sorted).distance, d.distance) <= 0
       THEN <<Head(sorted)>> \o InsertSorted(Tail(sorted), d)
       ELSE <<d>> \o sorted

RECURSIVE SortDistances(_)
SortDistances(ds) ==
  IF ds = <<>> THEN <<>>
  ELSE InsertSorted(SortDistances(SubSeq(ds, 1, Len(ds) - 1)), ds[Len(ds)])

\* Mutant: the slice keeps one element more.
TakeFirst_OneMore(s, k) == SubSeq(s, 1, IF Len(s) < k + 1 THEN Len(s) ELSE k + 1)

\* distances.slice(0, 5)
TakeFirst(s, k) == SubSeq(s, 1, IF Len(s) < k THEN Len(s) ELSE k)

\* String.prototype.trim() of the result string.
RECURSIVE TrimLeft(_)
TrimLeft(s) == IF s # <<>> /\ IsWS(Head(s)) THEN TrimLeft(Tail(s)) ELSE s

RECURSIVE TrimRight(_)
TrimRight(s) ==
  IF s # <<>> /\ IsWS(s[Len(s)]) THEN TrimRight(SubSeq(s, 1, Len(s) - 1)) ELSE s

Trim(s) == TrimRight(TrimLeft(s))

RECURSIVE Concat(_)
Concat(ss) == IF ss = <<>> THEN <<>> ELSE Head(ss) \o Concat(Tail(ss))

Range(s) == {s[i] : i \in 1..Len(s)}
PathsOf(fcs) == {fcs[i].path : i \in 1..Len(fcs)}
PathSeq(fcs) == [i \in 1..Len(fcs) |-> fcs[i].path]

\* ------------------------------------------------------ one call's state
IdleCall ==
  [pc                 |-> "idle",    \* the await the call is suspended at
   timer              |-> "off",     \* the setTimeout of line 146
   operationCompleted |-> FALSE,
   sawFile            |-> FALSE,     \* what existsSync answered in loadCache
   dartFiles          |-> <<>>,
   fileContents       |-> <<>>,
   batches            |-> <<>>,
   batchIdx           |-> 0,
   cacheData          |-> <<>>,      \* JSON.stringify(...) of saveCache
   outcome            |-> "none",    \* "result", or the error thrown
   resultString       |-> <<>>,
   notes              |-> <<>>,      \* the stepLoader messages posted
   \* history, for the properties only
   loaded             |-> "none",    \* the kind of file loadCache found
   cacheAtDiff        |-> EmptyCache,
   submitted          |-> {},        \* paths sent to batchEmbedContents
   requests           |-> <<>>,      \* the requests sent to it: the paths of each
   failed             |-> {},        \* paths of the batches that failed
   writeFailed        |-> FALSE,     \* writeFile threw
   ranked             |-> <<>>,      \* the cache entries ranking read
   queryValues        |-> <<>>,      \* the vector of the query ranking used
   io                 |-> {}]        \* kinds of I/O performed

NoPrev == [instance |-> "none", fileContents |-> <<>>, outcome |-> "none",
           computed |-> {}, failed |-> {}]

InFlight(c) == call[c].pc # "idle"
NoCallInFlight == \A c \in Calls : ~InFlight(c)

Note(kind, filePaths) == [kind |-> kind, filePaths |-> filePaths]

\* The catch and finally of lines 255-260: the error is kept until the
\* timer's promise resolves.
Throw(r, error) == [r EXCEPT !.pc = "finally", !.outcome = error]

\* Mutant: the cache is serialized as it was before the batches were embedded.
BeginSave_BeforeEmbedding(r, cache) ==
  IF ~WorkspaceOpen
  THEN Throw(r, "save")
  ELSE [r EXCEPT !.pc = "saving", !.cacheData = JSONStringify(r.cacheAtDiff),
                 !.io = @ \cup {"save"}]

\* saveCache up to its await: JSON.stringify, then writeFile is started on
\* this.cacheFilePath; with no workspace the getter throws, the catch of
\* saveCache hands the error to handleError, which throws again.
BeginSave(r, cache) ==
  IF ~WorkspaceOpen
  THEN Throw(r, "save")
  ELSE [r EXCEPT !.pc = "saving", !.cacheData = JSONStringify(cache),
                 !.io = @ \cup {"save"}]

\* ---------------------------------------------------------------- actions
\* Mutant: the API key is checked after the cache has been loaded.
FirstAwait_ChecksKeyLate(r) ==
  IF CacheIsEmpty(codehashCache)
  THEN [r EXCEPT !.pc = "loading", !.sawFile = ExistsSync, !.io = {"load"}]
  ELSE IF ~apiKey
       THEN Throw(r, "apiKey")
       ELSE [r EXCEPT !.pc = "listing", !.io = {"list"}]

\* findClosestDartFiles up to its first await (lines 143-167).
FirstAwait(r) ==
  IF ~apiKey
  THEN Throw(r, "apiKey")
  ELSE IF CacheIsEmpty(codehashCache)
       THEN [r EXCEPT !.pc = "loading", !.sawFile = ExistsSync, !.io = {"load"}]
       ELSE [r EXCEPT !.pc = "listing", !.io = {"list"}]

Begin(c) ==
  /\ ~InFlight(c)
  /\ \A d \in Calls : d < c => InFlight(d)
  /\ events < MaxEvents
  /\ events' = events + 1
  /\ call' = [call EXCEPT ![c] = FirstAwait([IdleCall EXCEPT !.timer = "armed"])]
  /\ UNCHANGED <<apiKey, codehashCache, disk, files, prev, produced, others>>

\* A call by a caller that awaits each call before making the next one.
Start(c) == NoCallInFlight /\ Begin(c)

\* A call made while another one may still be running.
StartOverlapping(c) == Begin(c)

\* Mutant: loadCache lets the error of readFile or JSON.parse through.
AfterLoad_Rethrows(r) ==
  IF r.sawFile /\ disk.kind = "corrupt"
  THEN Throw(r, "load")
  ELSE [r EXCEPT !.pc = "listing", !.io = @ \cup {"list"},
                 !.loaded = FoundByLoad(r.sawFile)]

\* loadCache returns (lines 111-120), its errors caught; findFiles is started.
AfterLoad(r) ==
  [r EXCEPT !.pc = "listing", !.io = @ \cup {"list"},
            !.loaded = FoundByLoad(r.sawFile)]

LoadDone(c) ==
  /\ call[c].pc = "loading"
  /\ codehashCache' = LoadedCache(call[c].sawFile)
  /\ call' = [call EXCEPT ![c] = AfterLoad(call[c])]
  /\ UNCHANGED <<apiKey, disk, files, prev, produced, events, others>>

\* findFiles returns (line 167); the documents are opened.
ListDone(c) ==
  /\ call[c].pc = "listing"
  /\ call' = [call EXCEPT ![c].pc = "reading", ![c].dartFiles = FindFiles,
                          ![c].io = @ \cup {"read"}]
  /\ UNCHANGED <<apiKey, codehashCache, disk, files, prev, produced, events, others>>

\* Promise.all of the reads returns (lines 170-193): the diff against the
\* cache and the batches; the first batch, or the save, is started.
AfterRead(r) ==
  IF \E i \in 1..Len(r.dartFiles) : files[r.dartFiles[i]] = Absent
  THEN Throw(r, "read")
  ELSE LET fileContents == ReadFiles(r.dartFiles)
           filesToUpdate == FilesToUpdate(codehashCache, fileContents)
           batches == Batches(filesToUpdate)
           r2 == [r EXCEPT !.fileContents = fileContents,
                           !.batches = batches,
                           !.cacheAtDiff = codehashCache]
       IN IF batches = <<>>
          THEN BeginSave(r2, codehashCache)
          ELSE [r2 EXCEPT !.pc = "embedding", !.batchIdx = 1,
                          !.submitted = PathsOf(batches[1]),
                          !.requests = <<PathSeq(batches[1])>>,
                          !.io = @ \cup {"embed"}]

ReadDone(c) ==
  /\ call[c].pc = "reading"
  /\ call' = [call EXCEPT ![c] = AfterRead(call[c])]
  /\ UNCHANGED <<apiKey, codehashCache, disk, files, prev, produced, events, others>>

\* Mutant: the files of a failed batch are stored all the same.
CacheAfterBatch_StoresFailed(cache, batch, ok) == CacheWithBatch(cache, batch)

\* batchEmbedContents of the current batch returns or throws (lines 196-217).
CacheAfterBatch(cache, batch, ok) ==
  IF ok THEN CacheWithBatch(cache, batch) ELSE cache

BatchDone(c, ok) ==
  /\ call[c].pc = "embedding"
  /\ LET r == call[c]
         batch == r.batches[r.batchIdx]
         cache == CacheAfterBatch(codehashCache, batch, ok)
         r2 == [r EXCEPT !.failed = IF ok THEN @ ELSE @ \cup PathsOf(batch)]
     IN /\ codehashCache' = cache
        /\ IF r.batchIdx < Len(r.batches)
           THEN call' = [call EXCEPT ![c] =
                     [r2 EXCEPT !.batchIdx = @ + 1,
                                !.submitted = @ \cup PathsOf(r.batches[r.batchIdx + 1]),
                                !.requests = Append(@, PathSeq(r.batches[r.batchIdx + 1]))]]
           ELSE call' = [call EXCEPT ![c] = BeginSave(r2, cache)]
  /\ produced' = [p \in Paths |->
        IF ok /\ p \in PathsOf(call[c].batches[call[c].batchIdx])
        THEN codehashCache'[p] ELSE produced[p]]
  /\ UNCHANGED <<apiKey, disk, files, prev, events, others>>

\* writeFile returns or throws (lines 97-109, 220-228): on an error
\* handleError throws again; otherwise the query is sent to embedContent.
AfterSave(r, ok) ==
  IF ok
  THEN [r EXCEPT !.pc = "query", !.operationCompleted = TRUE,
                 !.io = @ \cup {"query"}]
  ELSE Throw([r EXCEPT !.writeFailed = TRUE], "save")

SaveDone(c, ok) ==
  /\ call[c].pc = "saving"
  /\ disk' = IF ok THEN JsonFile(call[c].cacheData) ELSE disk
  /\ call' = [call EXCEPT ![c] = AfterSave(call[c], ok)]
  /\ UNCHANGED <<apiKey, codehashCache, files, prev, produced, events, others>>

\* Lines 230-254, run when embedContent has returned.
Distances(cache, dartFiles, queryValues) ==
  [i \in 1..Len(dartFiles) |->
     [file |-> dartFiles[i],
      distance |-> euclideanDistance(cache[dartFiles[i]].embedding, queryValues)]]

TextOf(fileContents, p) ==
  LET i == CHOOSE j \in 1..Len(fileContents) : fileContents[j].path = p
  IN fileContents[i].text

\* Mutant: the file names are taken from the files as listed.
Rank_NamesAsListed(r, cache, queryValues) ==
  LET top == TakeFirst(SortDistances(Distances(cache, r.dartFiles, queryValues)), TopK)
      filePaths == TakeFirst(r.dartFiles, TopK)
      texts == [i \in 1..Len(top) |-> TextOf(r.fileContents, top[i].file)]
  IN [r EXCEPT !.pc = "finally", !.outcome = "result",
               !.resultString = Trim(Concat(texts)),
               !.notes = Append(@, Note("creatingResultLoader", filePaths)),
               !.ranked = [i \in 1..Len(r.dartFiles) |-> cache[r.dartFiles[i]]],
               !.queryValues = queryValues]

\* The ranking proper (lines 230-254): the distances sorted, the texts of the
\* first files concatenated, their names posted.
Rank(r, cache, queryValues) ==
  LET top == TakeFirst(SortDistances(Distances(cache, r.dartFiles, queryValues)), TopK)
      filePaths == [i \in 1..Len(top) |-> top[i].file]
      texts == [i \in 1..Len(top) |-> TextOf(r.fileContents, top[i].file)]
  IN [r EXCEPT !.pc = "finally", !.outcome = "result",
               !.resultString = Trim(Concat(texts)),
               !.notes = Append(@, Note("creatingResultLoader", filePaths)),
               !.ranked = [i \in 1..Len(r.dartFiles) |-> cache[r.dartFiles[i]]],
               !.queryValues = queryValues]

\* Ranking reads this.codehashCache[file.path].embedding of every listed
\* file: a TypeError when a file has no entry.
AfterQuery(r, cache, queryValues) ==
  IF \E i \in 1..Len(r.dartFiles) : ~cache[r.dartFiles[i]].has
  THEN Throw(r, "rank")
  ELSE Rank(r, cache, queryValues)

\* embedContent returns the query's vector, or throws.
QueryDone(c, ok, queryValues) ==
  /\ call[c].pc = "query"
  /\ call' = [call EXCEPT ![c] =
        IF ok THEN AfterQuery(call[c], codehashCache, queryValues)
        ELSE Throw(call[c], "query")]
  /\ UNCHANGED <<apiKey, codehashCache, disk, files, prev, produced, events, others>>

\* Mutant: the callback posts the message whatever operationCompleted is.
TimerNotes_Unguarded(r) == Append(r.notes, Note("fetchingFileLoader", <<>>))

\* The callback of setTimeout(..., 5000) (lines 146-151).
TimerNotes(r) ==
  IF ~r.operationCompleted
  THEN Append(r.notes, Note("fetchingFileLoader", <<>>))
  ELSE r.notes

TimerFires(c) ==
  /\ call[c].timer = "armed"
  /\ call' = [call EXCEPT ![c].timer = "fired", ![c].notes = TimerNotes(call[c])]
  /\ UNCHANGED <<apiKey, codehashCache, disk, files, prev, produced, events, others>>

\* Mutant: the finally block does not wait for the timer.
AwaitReturns_WithoutTimer(r) == r.pc = "finally"

\* The call is in its finally block and timeoutPromise is resolved: the
\* `await timeoutPromise` of line 259 returns.
AwaitReturns(r) == r.pc = "finally" /\ r.timer = "fired"

\* `await timeoutPromise` of the finally block returns: the call settles,
\* with its result or its error.
Settle(c) ==
  /\ AwaitReturns(call[c])
  /\ prev' = [instance |-> "this", fileContents |-> call[c].fileContents,
              outcome |-> call[c].outcome,
              computed |-> call[c].submitted \ call[c].failed,
              failed |-> call[c].failed]
  /\ call' = [call EXCEPT ![c] = IdleCall]
  /\ UNCHANGED <<apiKey, codehashCache, disk, files, produced, events, others>>

\* The user saves, creates or deletes a Dart file.
EditFile(p, code) ==
  /\ WorkspaceOpen
  /\ events < MaxEvents
  /\ files[p] # code
  /\ files' = [files EXCEPT ![p] = code]
  /\ events' = events + 1
  /\ UNCHANGED <<apiKey, codehashCache, disk, call, prev, produced, others>>

\* The extension host starts again: new GeminiRepository(apiKey).
Restart(key) ==
  /\ NoCallInFlight
  /\ events < MaxEvents
  /\ events' = events + 1
  /\ apiKey' = key
  /\ codehashCache' = EmptyCache
  /\ prev' = [prev EXCEPT !.instance = IF @ = "none" THEN "none" ELSE "old"]
  /\ produced' = EmptyCache
  /\ UNCHANGED <<disk, files, call, others>>

\* The parts checked alone, when they are not exercised.
NoVectors  == [a |-> <<>>, b |-> <<>>, called |-> FALSE, thrown |-> FALSE, distance |-> 0]
NoHashing  == [text |-> <<>>, edited |-> <<>>, change |-> "none",
               codehash |-> <<>>, editedCodehash |-> <<>>]
NoCommands == [registered |-> {}, invocations |-> <<>>]

Init ==
  /\ apiKey \in BOOLEAN
  /\ codehashCache = EmptyCache
  /\ disk \in {NoFile, CorruptFile, JsonFile(<<>>), NoWorkspace}
  /\ files \in {[p \in Paths |-> Absent], [p \in Paths |-> <<1>>]}
  /\ ~WorkspaceOpen => files = [p \in Paths |-> Absent]
  /\ call = [c \in Calls |-> IdleCall]
  /\ prev = NoPrev
  /\ produced = EmptyCache
  /\ events = 0
  /\ vectors = NoVectors
  /\ hashing = NoHashing
  /\ commands = NoCommands

CallSteps ==
  \/ \E c \in Calls : LoadDone(c)
  \/ \E c \in Calls : ListDone(c)
  \/ \E c \in Calls : ReadDone(c)
  \/ \E c \in Calls, ok \in BOOLEAN : BatchDone(c, ok)
  \/ \E c \in Calls, ok \in BOOLEAN : SaveDone(c, ok)
  \/ \E c \in Calls, ok \in BOOLEAN, q \in Queries : QueryDone(c, ok, q)
  \/ \E c \in Calls : TimerFires(c)
  \/ \E c \in Calls : Settle(c)

Environment ==
  \/ \E p \in Paths, code \in Codes \cup {Absent} : EditFile(p, code)
  \/ \E key \in BOOLEAN : Restart(key)

\* Calls made one after the other, with edits, restarts and failures of
\* the embedding service and of the file system.
Next ==
  \/ \E c \in Calls : Start(c)
  \/ CallSteps
  \/ Environment

Spec == Init /\ [][Next]_vars

\* The same steps in shorter behaviours, with the event loop doing its
\* part: a timer that is armed fires, and a call whose awaited timer promise
\* is resolved goes on.  Nothing makes the file system or the embedding
\* service answer.
NextLive == Next /\ events' <= MaxLiveEvents

SpecLive ==
  /\ Init
  /\ [][NextLive]_vars
  /\ \A c \in Calls : WF_vars(TimerFires(c)) /\ WF_vars(Settle(c))

\* The shorter behaviours with no assumption of progress: what a call does
\* after at most one earlier call, edit or restart.
SpecShort == Init /\ [][NextLive]_vars

\* Calls that may overlap, in a workspace nobody edits and with an
\* embedding service and a file system that never fail.
NextOverlap ==
  \/ \E c \in Calls : StartOverlapping(c)
  \/ \E c \in Calls : LoadDone(c)
  \/ \E c \in Calls : ListDone(c)
  \/ \E c \in Calls : ReadDone(c)
  \/ \E c \in Calls : BatchDone(c, TRUE)
  \/ \E c \in Calls : SaveDone(c, TRUE)
  \/ \E c \in Calls, q \in Queries : QueryDone(c, TRUE, q)
  \/ \E c \in Calls : TimerFires(c)
  \/ \E c \in Calls : Settle(c)

SpecOverlap == Init /\ [][NextOverlap]_vars

\* ------------------------------------------------ euclideanDistance alone
\* The repository when nothing has been asked of it.
QuietRepo ==
  /\ apiKey = TRUE
  /\ codehashCache = EmptyCache
  /\ disk = NoFile
  /\ files = [p \in Paths |-> Absent]
  /\ call = [c \in Calls |-> IdleCall]
  /\ prev = NoPrev
  /\ produced = EmptyCache
  /\ events = 0

\* The vectors of numbers of length 0..MaxDim.
Coordinates == {1, 2}
VectorsOfLength(n) == [1..n -> Coordinates]
Vectors == UNION {VectorsOfLength(n) : n \in 0..MaxDim}

\* euclideanDistance(a, b) has no throw statement and calls nothing that
\* throws on arrays of numbers: it returns, a number or NaN.
Returned(v, distance) == [v EXCEPT !.called = TRUE, !.thrown = FALSE, !.distance = distance]

\* The arrow function of line 231 on one file: a is the cached embedding of
\* the file, b the embedding of the query; what it returns goes into
\* `distances`, which line 237 sorts.
CallEuclideanDistance ==
  /\ ~vectors.called
  /\ vectors' = Returned(vectors, euclideanDistance(vectors.a, vectors.b))
  /\ UNCHANGED <<repo, hashing, commands>>

InitDistance ==
  /\ QuietRepo
  /\ vectors \in {[NoVectors EXCEPT !.a = a, !.b = b] : a \in Vectors, b \in Vectors}
  /\ hashing = NoHashing
  /\ commands = NoCommands

NextDistance == CallEuclideanDistance

SpecDistance == InitDistance /\ [][NextDistance]_vars

\* -------------------------------------------------- computeCodehash alone
\* A text, and a copy of it edited one character at a time; each step calls
\* computeCodehash on both, as each call does with the documents it reads.
Characters == {WS, 1, 2}
TextsOfLength(n) == [1..n -> Characters]
Texts == UNION {TextsOfLength(n) : n \in 0..MaxText}

Hashed(text, edited, change) ==
  [text |-> text, edited |-> edited, change |-> change,
   codehash |-> computeCodehash(text),
   editedCodehash |-> computeCodehash(edited)]

\* The kind of the difference once white space has been edited.
AfterWhitespaceEdit == IF hashing.change = "token" THEN "token" ELSE "whitespace"

HashUnedited ==
  /\ hashing.change = "none"
  /\ hashing' = Hashed(hashing.text, hashing.edited, "same")
  /\ UNCHANGED <<repo, vectors, commands>>

\* White space is typed after the first i characters of the copy.
InsertWhitespace(i) ==
  /\ i \in 0..Len(hashing.edited)
  /\ Len(hashing.edited) <= MaxText
  /\ hashing' = Hashed(hashing.text,
                       SubSeq(hashing.edited, 1, i) \o <<WS>> \o
                         SubSeq(hashing.edited, i + 1, Len(hashing.edited)),
                       AfterWhitespaceEdit)
  /\ UNCHANGED <<repo, vectors, commands>>

\* The white space at position i of the copy is deleted.
RemoveWhitespace(i) ==
  /\ i \in 1..Len(hashing.edited)
  /\ IsWS(hashing.edited[i])
  /\ hashing' = Hashed(hashing.text,
                       SubSeq(hashing.edited, 1, i - 1) \o
                         SubSeq(hashing.edited, i + 1, Len(hashing.edited)),
                       AfterWhitespaceEdit)
  /\ UNCHANGED <<repo, vectors, commands>>

\* One character of the copy that is not white space becomes another one;
\* done once, so that the copy cannot be edited back.
ChangeCharacter(i, ch) ==
  /\ hashing.change # "token"
  /\ i \in 1..Len(hashing.edited)
  /\ ~IsWS(hashing.edited[i]) /\ ~IsWS(ch) /\ ch # hashing.edited[i]
  /\ hashing' = Hashed(hashing.text, [hashing.edited EXCEPT ![i] = ch], "token")
  /\ UNCHANGED <<repo, vectors, commands>>

InitHash ==
  /\ QuietRepo
  /\ vectors = NoVectors
  /\ hashing \in {[NoHashing EXCEPT !.text = t, !.edited = t] : t \in Texts}
  /\ commands = NoCommands

NextHash ==
  \/ HashUnedited
  \/ \E i \in 0..(MaxText + 1) : InsertWhitespace(i)
  \/ \E i \in 1..(MaxText + 1) : RemoveWhitespace(i)
  \/ \E i \in 1..(MaxText + 1), ch \in Characters : ChangeCharacter(i, ch)

SpecHash == InitHash /\ [][NextHash]_vars

\* ------------------------------------- command-manager.ts: registerCommand
\* One command name given to registerCommand: `name` is registered and, when
\* options.isMenu is set, `${name}.menu` too, both with the same callback.
\* An invocation keeps the trace of what its callback has done.
CommandIds == {"name", "name.menu"}
Answers == {"true", "false", "threw"}   \* of checkApiKeyAndPrompt(context)

RegisterCommand(isMenu) ==
  /\ commands.registered = {}
  /\ commands' = [commands EXCEPT
        !.registered = IF isMenu THEN {"name", "name.menu"} ELSE {"name"}]
  /\ UNCHANGED <<repo, vectors, hashing>>

\* VS Code runs the callback of a registered command: it calls
\* checkApiKeyAndPrompt and waits for the answer.
Invoke(id) ==
  /\ id \in commands.registered
  /\ Len(commands.invocations) < MaxInvocations
  /\ commands' = [commands EXCEPT
        !.invocations = Append(@, [command |-> id, pc |-> "checking",
                                   trace |-> <<"check">>])]
  /\ UNCHANGED <<repo, vectors, hashing>>

\* Mutant: the telemetry event is logged before the answer is tested.
AfterCheck_LogsFirst(inv, answer) ==
  [inv EXCEPT !.pc = "done",
              !.trace = @ \o <<answer>> \o
                        (IF answer = "threw" THEN <<>> ELSE <<"logEvent">>) \o
                        (IF answer = "true" THEN <<"handler">> ELSE <<>>)]

\* The callback after its await (lines 47-51 and 58-62): a rejection ends
\* it; otherwise `if (apiKeyValid) { logEvent(...); handler(...args); }`.
AfterCheck(inv, answer) ==
  [inv EXCEPT !.pc = "done",
              !.trace = @ \o <<answer>> \o
                        (IF answer = "true" THEN <<"logEvent", "handler">> ELSE <<>>)]

CheckDone(i, answer) ==
  /\ i \in 1..Len(commands.invocations)
  /\ commands.invocations[i].pc = "checking"
  /\ commands' = [commands EXCEPT
        !.invocations[i] = AfterCheck(commands.invocations[i], answer)]
  /\ UNCHANGED <<repo, vectors, hashing>>

InitCommandManager ==
  /\ QuietRepo
  /\ vectors = NoVectors
  /\ hashing = NoHashing
  /\ commands = NoCommands

NextCommandManager ==
  \/ \E isMenu \in BOOLEAN : RegisterCommand(isMenu)
  \/ \E id \in CommandIds : Invoke(id)
  \/ \E i \in 1..MaxInvocations, answer \in Answers : CheckDone(i, answer)

SpecCommandManager == InitCommandManager /\ [][NextCommandManager]_vars

\* ------------------------------------------------------------ properties
\* The call is past its loop over the batches.
AfterLoop(c) ==
  \/ call[c].pc \in {"saving", "query"}
  \/ call[c].pc = "finally" /\ call[c].outcome \in {"save", "query", "rank", "result"}

\* The call has read the files and computed filesToUpdate.
AfterDiff(c) == call[c].pc = "embedding" \/ AfterLoop(c)

\* The call follows, on the same instance, a call that read the same contents.
RunTwice(c) ==
  /\ AfterDiff(c)
  /\ prev.instance = "this"
  /\ call[c].fileContents = prev.fileContents

StaleOrMissing(c) ==
  LET fcs == call[c].fileContents
      cache == call[c].cacheAtDiff
  IN {fcs[i].path : i \in {j \in 1..Len(fcs) :
          \/ ~cache[fcs[j].path].has
          \/ cache[fcs[j].path].codehash # computeCodehash(fcs[j].text)}}

\* C2: the files a call submits to batchEmbedContents are exactly the listed
\* files that are missing from the cache or whose cached codehash differs
\* from the codehash of their text; no file whose codehash matches is sent.
C2_SubmittedExactlyStaleOrMissing ==
  \A c \in Calls :
    /\ call[c].submitted \subseteq StaleOrMissing(c)
    /\ AfterLoop(c) => call[c].submitted = StaleOrMissing(c)

C2_Witness ==
  \E c \in Calls :
    /\ call[c].pc = "query"
    /\ prev.instance = "this"
    /\ Len(call[c].dartFiles) = NumFiles
    /\ Cardinality(call[c].submitted) = 1

\* The file names of the creatingResultLoader message of a call.
ResultFiles(c) ==
  UNION {Range(call[c].notes[i].filePaths) :
           i \in {j \in 1..Len(call[c].notes) :
                    call[c].notes[j].kind = "creatingResultLoader"}}

\* Exactly one of several batches of the call failed.
OneBatchFailed(c) ==
  /\ Len(call[c].batches) >= 2
  /\ \E b \in 1..Len(call[c].batches) : call[c].failed = PathsOf(call[c].batches[b])

\* C3: when one of N batches fails the call is not aborted: the files of the
\* other batches are in the cache, and the call returns a ranked result
\* drawn only from the files whose embedding was computed.
C3_PartialFailureStillRanks ==
  \A c \in Calls :
    (/\ call[c].pc = "finally"
     /\ OneBatchFailed(c)
     /\ call[c].outcome \notin {"save", "query"})
    => /\ call[c].outcome = "result"
       /\ \A p \in call[c].submitted \ call[c].failed : codehashCache[p].has
       /\ ResultFiles(c) \cap call[c].failed = {}

\* C4: every vector ranking uses belongs to a cache entry whose codehash is
\* the codehash of the text the call read; a changed file whose batch failed
\* is left out of the ranking.
C4_RankingUsesNoStaleVector ==
  \A c \in Calls :
    call[c].outcome = "result"
    => /\ \A i \in 1..Len(call[c].ranked) :
            call[c].ranked[i].codehash = computeCodehash(call[c].fileContents[i].text)
       /\ ResultFiles(c) \cap call[c].failed = {}

\* C5: a failure of saveCache's writeFile does not propagate: the call goes
\* on to embed the query and to rank.
C5_WriteFailureDoesNotPropagate ==
  \A c \in Calls :
    call[c].writeFailed => call[c].outcome # "save" /\ "query" \in call[c].io

\* C6: when two calls overlap no entry computed by either is lost: once
\* both have finished, the cache in memory and the cache file hold every
\* entry computed, and no call has failed.
C6_OverlapLosesNoEntry ==
  /\ \A c \in Calls : call[c].outcome \notin {"read", "save", "query", "rank"}
  /\ (NoCallInFlight /\ produced # EmptyCache)
     => /\ \A p \in Paths : produced[p].has => codehashCache[p] = produced[p]
        /\ disk.kind = "json"
        /\ \A p \in Paths : produced[p].has => JSONParse(disk.data)[p] = produced[p]

\* This step is the timer callback of call c.
TimerFiredFor(c) == call[c].timer = "armed" /\ call'[c].timer = "fired"

\* This step posts the 'still working' message of call c.
StillWorkingPosted(c) ==
  call'[c].notes = Append(call[c].notes, Note("fetchingFileLoader", <<>>))

\* The call has produced its result.
ReachedDone(c) == call[c].outcome = "result"

\* The call has not got past saveCache: it is at an earlier await, or it
\* failed at one.
NotPastSave(c) ==
  \/ call[c].pc \in {"loading", "listing", "reading", "embedding", "saving"}
  \/ call[c].pc = "finally" /\ call[c].outcome \in {"apiKey", "read", "save"}

\* C7 as stated: when the timer fires the 'still working' message is posted
\* if and only if the call has not reached Done.
C7_StillWorkingIffNotDone ==
  [][\A c \in Calls :
       TimerFiredFor(c) => (StillWorkingPosted(c) <=> ~ReachedDone(c))]_vars

\* C7, what the timer callback does: when the timer fires the 'still
\* working' message is posted if and only if the call has not got past
\* saveCache; it is not posted while the query is embedded, nor after ranking.
C7_StillWorkingIffNotPastSave ==
  [][\A c \in Calls :
       TimerFiredFor(c) => (StillWorkingPosted(c) <=> NotPastSave(c))]_vars

C7_Witness ==
  \E c \in Calls :
    /\ call[c].pc = "query"
    /\ call[c].timer = "fired"
    /\ call[c].notes = <<>>

\* This step is the return of loadCache in call c, from a file that cannot
\* be read or parsed.
CorruptLoadReturns(c) ==
  /\ call[c].pc = "loading"
  /\ call'[c].pc # "loading"
  /\ call[c].sawFile
  /\ disk.kind = "corrupt"

\* C8: loading an unreadable or malformed cache file leaves the cache empty
\* and throws nothing, the call goes on; the file the call then saves is one
\* that a fresh load turns into exactly the cache that was saved.
C8_CorruptCacheRecovered ==
  /\ [][\A c \in Calls :
          CorruptLoadReturns(c)
          => codehashCache' = EmptyCache /\ call'[c].pc = "listing"]_vars
  /\ [](\A c \in Calls :
          call[c].operationCompleted
          => disk.kind = "json" /\ LoadedCache(TRUE) = codehashCache)

C8_Witness ==
  \E c \in Calls :
    /\ call[c].loaded = "corrupt"
    /\ call[c].pc = "query"
    /\ call[c].submitted # {}
    /\ disk.kind = "json"
    /\ Len(disk.data) = NumFiles

\* C9: with no API key a call fails with the configuration error before it
\* loads the cache, lists or reads a file, or asks for an embedding.
C9_NoApiKeyFailsFirst ==
  \A c \in Calls :
    (InFlight(c) /\ ~apiKey)
    => /\ call[c].pc = "finally"
       /\ call[c].outcome = "apiKey"
       /\ call[c].io = {}
       /\ call[c].submitted = {}
       /\ codehashCache = EmptyCache

C9_Witness ==
  \E c \in Calls : call[c].pc = "finally" /\ call[c].outcome = "apiKey"

\* The entry a successful batch stores for a file content.
EntryOf(fc) ==
  [has |-> TRUE, codehash |-> fc.codehash, embedding |-> EmbedDocument(fc.text)]

\* The call follows a call whose query embedding or ranking failed.
FollowsFailedRanking(c) ==
  /\ AfterDiff(c)
  /\ prev.instance \in {"this", "old"}
  /\ prev.outcome \in {"query", "rank"}

\* C10: the cache is saved before the query is embedded: when the query
\* embedding or the ranking of a call fails, the cache file holds every
\* entry the call computed, and the following call does not submit the
\* files of those entries again.
C10_SavedBeforeQuery ==
  \A c \in Calls :
    /\ (call[c].pc = "finally" /\ call[c].outcome \in {"query", "rank"})
       => /\ disk.kind = "json"
          /\ \A i \in 1..Len(call[c].fileContents) :
               LET fc == call[c].fileContents[i]
               IN fc.path \in call[c].submitted \ call[c].failed
                  => JSONParse(disk.data)[fc.path] = EntryOf(fc)
    /\ FollowsFailedRanking(c)
       => \A i \in 1..Len(call[c].fileContents) :
            LET fc == call[c].fileContents[i]
            IN (fc.path \in prev.computed /\ fc \in Range(prev.fileContents))
               => fc.path \notin call[c].submitted

C10_Witness ==
  \E c \in Calls :
    /\ AfterLoop(c)
    /\ prev.instance = "old"
    /\ prev.outcome = "query"
    /\ prev.computed # {}
    /\ call[c].fileContents = prev.fileContents
    /\ call[c].submitted = {}

\* C11: when the vector of a candidate and the vector of the query have
\* different lengths, the distance is not computed: the ranking ends in an
\* error, so that no distance over a prefix of the vectors and no
\* non-numeric distance reaches the sort.
C11_DimensionMismatchThrows ==
  (vectors.called /\ Len(vectors.a) # Len(vectors.b)) => vectors.thrown

\* What the code does with vectors of different lengths: a query longer
\* than the cached vector is cut to its prefix, a shorter one gives NaN.
C11_MismatchGivesPrefixOrNaN ==
  (vectors.called /\ Len(vectors.a) # Len(vectors.b)) =>
     /\ ~vectors.thrown
     /\ Len(vectors.a) > Len(vectors.b) => vectors.distance = NaN
     /\ Len(vectors.a) < Len(vectors.b) =>
           vectors.distance =
             euclideanDistance(vectors.a, SubSeq(vectors.b, 1, Len(vectors.a)))

\* The call has ranked and holds its result.
HasResult(c) == call[c].pc = "finally" /\ call[c].outcome = "result"

\* The ranked selection of a call: the files of its result, in order.
ResultsNotes(c) ==
  SelectSeq(call[c].notes, LAMBDA n : n.kind = "creatingResultLoader")

Selection(c) == ResultsNotes(c)[1].filePaths

\* The candidates of the ranking: the listed files, those with a vector,
\* and the distance of a listed file to the vector of the query.
Listed(c) == Range(call[c].dartFiles)

RankedEntry(c, p) ==
  call[c].ranked[CHOOSE i \in 1..Len(call[c].dartFiles) : call[c].dartFiles[i] = p]

WithVector(c) == {p \in Listed(c) : RankedEntry(c, p).has}

DistanceOf(c, p) ==
  euclideanDistance(RankedEntry(c, p).embedding, call[c].queryValues)

Min(m, n) == IF m < n THEN m ELSE n

\* C12: the ranked selection has at most min(k, number of candidates with a
\* vector) files, in non-decreasing order of their distance to the vector of
\* the query, and no file left out is strictly closer to the query than a
\* file of the selection.
C12_SelectionIsTheClosestK ==
  \A c \in Calls :
    HasResult(c) =>
      LET sel == Selection(c)
      IN /\ Len(sel) <= Min(TopK, Cardinality(WithVector(c)))
         /\ Range(sel) \subseteq Listed(c)
         /\ \A i, j \in 1..Len(sel) : i # j => sel[i] # sel[j]
         /\ \A p \in Range(sel) : DistanceOf(c, p) # NaN
         /\ \A i, j \in 1..Len(sel) :
               i < j => DistanceOf(c, sel[i]) <= DistanceOf(c, sel[j])
         /\ \A p \in Listed(c) \ Range(sel), q \in Range(sel) :
               ~(DistanceOf(c, p) < DistanceOf(c, q))

\* A result over more than k files at three different distances: the two
\* closest are kept in order and the farthest is left out.
C12_Witness ==
  \E c \in Calls :
    /\ HasResult(c)
    /\ Cardinality(Listed(c)) > TopK
    /\ Len(Selection(c)) = TopK
    /\ DistanceOf(c, Selection(c)[1]) < DistanceOf(c, Selection(c)[TopK])
    /\ \E p \in Listed(c) \ Range(Selection(c)) :
          DistanceOf(c, Selection(c)[TopK]) < DistanceOf(c, p)

\* The listed files whose cached vector is the vector of the query.
EqualToQuery(c) ==
  {p \in WithVector(c) : RankedEntry(c, p).embedding = call[c].queryValues}

\* C13: when the vector of the query is exactly the vector of one candidate,
\* that candidate is first in the ranked selection, at distance 0.
C13_ExactMatchRankedFirst ==
  \A c \in Calls :
    (HasResult(c) /\ Cardinality(EqualToQuery(c)) = 1) =>
      \A p \in EqualToQuery(c) :
        /\ Selection(c) # <<>>
        /\ Selection(c)[1] = p
        /\ DistanceOf(c, p) = 0

\* The query equals the vector of one file only, and that file is not the
\* first one listed: sorting moved it to the front.
C13_Witness ==
  \E c \in Calls :
    /\ HasResult(c)
    /\ Cardinality(EqualToQuery(c)) = 1
    /\ Cardinality(Listed(c)) > TopK
    /\ Selection(c)[1] \in EqualToQuery(c)
    /\ Selection(c)[1] # call[c].dartFiles[1]

\* The paths whose text differs between what the previous call read and
\* what this call read.
ChangedPaths(c) ==
  {call[c].fileContents[i].path : i \in
     {j \in 1..Len(call[c].fileContents) :
        call[c].fileContents[j].text # prev.fileContents[j].text}}

\* The call follows, on the same instance, a call that read the same files,
\* exactly one of them with another content.
OneFileChanged(c) ==
  /\ AfterDiff(c)
  /\ prev.instance = "this"
  /\ PathsOf(call[c].fileContents) = PathsOf(prev.fileContents)
  /\ Cardinality(ChangedPaths(c)) = 1

\* The cache entries of the files other than the changed one are what they
\* were before the call, in memory and in the file the call has written.
OtherEntriesKept(c) ==
  \A p \in Paths \ ChangedPaths(c) :
    /\ codehashCache[p] = call[c].cacheAtDiff[p]
    /\ call[c].operationCompleted => JSONParse(disk.data)[p] = call[c].cacheAtDiff[p]

C15_CodehashIgnoresOnlyWhitespace ==
  /\ hashing.change \in {"same", "whitespace"}
       => hashing.editedCodehash = hashing.codehash
  /\ hashing.change = "token" => hashing.editedCodehash # hashing.codehash
  /\ (hashing.change # "none" /\ hashing.text = <<>>)
       => hashing.codehash = computeCodehash(<<WS>>)

\* White space typed between two characters of a token.
C15_Witness ==
  /\ hashing.change = "whitespace"
  /\ hashing.text = <<1, 2>>
  /\ hashing.edited = <<1, WS, 2>>
  /\ hashing.editedCodehash = hashing.codehash

\* C18 as stated: with no workspace open no step of a call swallows the
\* missing workspace: loadCache does not return as if nothing had happened,
\* and the call returns no result.
C18_NoWorkspaceNeverSwallowed ==
  \A c \in Calls :
    (~WorkspaceOpen /\ InFlight(c)) =>
      /\ call[c].loaded # "nopath"
      /\ call[c].outcome # "result"

\* C18, what the code does: the call goes past loadCache and findFiles and
\* ends when saveCache fails to resolve the path, with the error of
\* saveCache (or earlier, for want of an API key); it returns no result.
C18_NoWorkspaceFailsAtSave ==
  \A c \in Calls :
    (~WorkspaceOpen /\ InFlight(c)) =>
      /\ call[c].outcome \in {"none", "apiKey", "save"}
      /\ call[c].outcome = "save" => call[c].loaded = "nopath" /\ ~call[c].writeFailed
      /\ call[c].pc \notin {"embedding", "saving", "query"}

\* findFiles has answered the call, with no file, in an open workspace.
ListedNone(c) ==
  /\ WorkspaceOpen
  /\ "read" \in call[c].io
  /\ call[c].dartFiles = <<>>

\* writeFile or the embedContent of the query has failed in the call.
SaveOrQueryFailed(c) ==
  \/ call[c].outcome = "save" /\ call[c].writeFailed
  \/ call[c].outcome = "query"

\* C16: a call that finds no file in the workspace submits no batch to
\* batchEmbedContents and raises no error of its own: unless writeFile or
\* the embedContent of the query fails, it ends with the empty result
\* string and the empty list of file names.
C16_NoFilesGivesEmptyResult ==
  \A c \in Calls :
    ListedNone(c) =>
      /\ call[c].submitted = {}
      /\ call[c].batches = <<>>
      /\ "embed" \notin call[c].io
      /\ (call[c].pc = "finally" /\ ~SaveOrQueryFailed(c)) =>
            /\ call[c].outcome = "result"
            /\ call[c].resultString = <<>>
            /\ Len(ResultsNotes(c)) = 1
            /\ Selection(c) = <<>>

\* A call over an empty workspace holds its empty result.
C16_Witness ==
  \E c \in Calls :
    /\ ListedNone(c)
    /\ HasResult(c)
    /\ call[c].resultString = <<>>
    /\ Selection(c) = <<>>
    /\ call[c].io = {"load", "list", "read", "save", "query"}

\* The text the call read of a file, and the texts of a list of files.
TextRead(c, p) ==
  call[c].fileContents[CHOOSE j \in 1..Len(call[c].fileContents) :
                         call[c].fileContents[j].path = p].text

TextsRead(c, filePaths) == [i \in 1..Len(filePaths) |-> TextRead(c, filePaths[i])]

\* C17: the result of a call is the texts of the files of its selection,
\* concatenated in ranked order, less the white space at the end; the
\* creatingResultLoader message is posted once, by the step that ranks,
\* not before it and not by a call that fails, and it names the files of
\* the selection in that same ranked order.
C17_ResultIsTheSelectionInOrder ==
  \A c \in Calls :
    /\ ~HasResult(c) => ResultsNotes(c) = <<>> /\ call[c].resultString = <<>>
    /\ HasResult(c) =>
         /\ Len(ResultsNotes(c)) = 1
         /\ \A i, j \in 1..Len(Selection(c)) :
               i < j => DistanceOf(c, Selection(c)[i]) <= DistanceOf(c, Selection(c)[j])
         /\ call[c].resultString = TrimRight(Concat(TextsRead(c, Selection(c))))

\* A result of k files that ranking has put in another order than they
\* were listed in, with white space cut off its end.
C17_Witness ==
  \E c \in Calls :
    /\ HasResult(c)
    /\ Len(Selection(c)) = TopK
    /\ Selection(c)[1] > Selection(c)[TopK]
    /\ DistanceOf(c, Selection(c)[1]) < DistanceOf(c, Selection(c)[TopK])
    /\ call[c].resultString # Concat(TextsRead(c, Selection(c)))
    /\ call[c].timer = "fired"

\* The events in the trace of an invocation.
Did(inv, event) == \E n \in 1..Len(inv.trace) : inv.trace[n] = event

\* C19: in every invocation of a command registered by registerCommand, the
\* base command or its '.menu' variant, the handler runs only after
\* checkApiKeyAndPrompt has answered true to that invocation, and once; when
\* the answer is not true, the handler does not run and no telemetry event
\* is logged.
C19_HandlerOnlyAfterValidKey ==
  \A i \in 1..Len(commands.invocations) :
    LET inv == commands.invocations[i]
    IN /\ inv.command \in commands.registered
       /\ Did(inv, "handler") =>
             inv.trace = <<"check", "true", "logEvent", "handler">>
       /\ ~Did(inv, "true") => ~Did(inv, "handler") /\ ~Did(inv, "logEvent")

\* The '.menu' variant has run the handler after a valid key while another
\* invocation, answered false, has ended without it.
C19_Witness ==
  \E i, j \in 1..Len(commands.invocations) :
    /\ commands.invocations[i].command = "name.menu"
    /\ Did(commands.invocations[i], "handler")
    /\ commands.invocations[j].command = "name"
    /\ commands.invocations[j].trace = <<"check", "false">>

\* The place of a listed file in the enumeration of findFiles.
PlaceListed(c, p) ==
  CHOOSE i \in 1..Len(call[c].dartFiles) : call[c].dartFiles[i] = p

\* C20: files at the same distance from the query stand in the ranked
\* selection in the order findFiles enumerated them, and of two files at
\* the same distance of which only one is in the selection, it is the one
\* enumerated first.
C20_TiesKeepEnumerationOrder ==
  \A c \in Calls :
    HasResult(c) =>
      LET sel == Selection(c)
      IN /\ \A i, j \in 1..Len(sel) :
               (i < j /\ DistanceOf(c, sel[i]) = DistanceOf(c, sel[j]))
                 => PlaceListed(c, sel[i]) < PlaceListed(c, sel[j])
         /\ \A p \in Listed(c) \ Range(sel), q \in Range(sel) :
               DistanceOf(c, p) = DistanceOf(c, q)
                 => PlaceListed(c, q) < PlaceListed(c, p)

\* Two files at the same distance compete for the last place of the
\* selection: the one enumerated first has it, behind a closer file that
\* was enumerated after it.
C20_Witness ==
  \E c \in Calls :
    /\ HasResult(c)
    /\ Len(Selection(c)) = TopK
    /\ PlaceListed(c, Selection(c)[1]) > PlaceListed(c, Selection(c)[TopK])
    /\ \E p \in Listed(c) \ Range(Selection(c)) :
          /\ DistanceOf(c, p) = DistanceOf(c, Selection(c)[TopK])
          /\ PlaceListed(c, Selection(c)[TopK]) < PlaceListed(c, p)

\* How many times a path stands in the requests of a call.
RECURSIVE TimesSent(_, _)
TimesSent(requests, p) ==
  IF requests = <<>> THEN 0
  ELSE Cardinality({i \in 1..Len(Head(requests)) : Head(requests)[i] = p})
       + TimesSent(Tail(requests), p)

\* The cache entry of a path is not that of the text the call read of it.
StaleFor(c, p) ==
  \/ ~codehashCache[p].has
  \/ codehashCache[p].codehash # computeCodehash(TextRead(c, p))

\* The call follows, on the same instance, a call in which a batch failed.
FollowsFailedBatch(c) ==
  /\ AfterLoop(c)
  /\ prev.instance = "this"
  /\ prev.failed # {}

\* The text the previous call read of a path.
TextReadBefore(p) ==
  prev.fileContents[CHOOSE j \in 1..Len(prev.fileContents) :
                      prev.fileContents[j].path = p].text

\* C21: a call sends each file to batchEmbedContents at most once, a file of
\* a failed batch too, and only files that were stale or missing; the files
\* of a failed batch are still stale or missing in the cache when the loop
\* has ended, and the next call, reading the same text of such a file,
\* sends it again.
C21_FailedBatchRetriedByNextCallOnly ==
  \A c \in Calls :
    /\ LET requests == call[c].requests
       IN \A p \in Paths :
            LET n == TimesSent(requests, p)
            IN n <= 1 /\ (n = 1 <=> p \in call[c].submitted)
    /\ call[c].failed \subseteq call[c].submitted
    /\ AfterLoop(c) => \A p \in call[c].failed : StaleFor(c, p)
    /\ FollowsFailedBatch(c) =>
          \A p \in prev.failed \cap PathsOf(call[c].fileContents) :
            TextRead(c, p) = TextReadBefore(p) => p \in call[c].submitted

\* A batch of the previous call failed; this call has sent its file again,
\* once, and this time the batch has succeeded.
C21_Witness ==
  \E c \in Calls :
    /\ FollowsFailedBatch(c)
    /\ \E p \in prev.failed :
          /\ TimesSent(call[c].requests, p) = 1
          /\ p \notin call[c].failed
          /\ ~StaleFor(c, p)
    /\ \E d \in Calls : \E q \in call[d].failed : StaleFor(d, q) /\ AfterLoop(d)

\* The paths of the stale or missing files of a call, in the order findFiles
\* enumerated them.
StaleOrMissingInOrder(c) ==
  LET stale == StaleOrMissing(c)
  IN SelectSeq(PathSeq(call[c].fileContents), LAMBDA p : p \in stale)

\* The paths of the batches of a call, batch by batch.
BatchPaths(c) == [b \in 1..Len(call[c].batches) |-> PathSeq(call[c].batches[b])]

\* C22: the batches of a call are its stale or missing files cut, in
\* enumeration order, into pieces of batchSize files (100 in the source),
\* the last piece alone possibly shorter and no piece empty, so that every
\* such file is in exactly one batch; the batches are what is sent, in
\* order; and the embedding returned for a file of a batch that succeeded
\* is stored under the path of that file with its codehash.
C22_BatchesPartitionInOrder ==
  \A c \in Calls :
    AfterDiff(c) =>
      LET paths == BatchPaths(c)
          stale == StaleOrMissingInOrder(c)
      IN
      /\ Concat(paths) = stale
      /\ \A b \in 1..Len(call[c].batches) :
            /\ Len(call[c].batches[b]) \in 1..batchSize
            /\ b < Len(call[c].batches) => Len(call[c].batches[b]) = batchSize
      /\ \A i \in 1..Len(stale) : TimesSent(paths, stale[i]) = 1
      /\ call[c].requests =
            SubSeq(paths, 1,
                   IF AfterLoop(c) THEN Len(call[c].batches) ELSE call[c].batchIdx)
      /\ AfterLoop(c) =>
            \A i \in 1..Len(call[c].fileContents) :
              LET fc == call[c].fileContents[i]
              IN fc.path \in call[c].submitted \ call[c].failed
                   => codehashCache[fc.path] = EntryOf(fc)

\* Three files in two batches, a full one and a shorter last one, both
\* answered: each file has the entry of its own text.
C22_Witness ==
  \E c \in Calls :
    /\ AfterLoop(c)
    /\ Len(call[c].batches) = 2
    /\ Len(call[c].batches[1]) = batchSize
    /\ Len(call[c].batches[2]) < batchSize
    /\ call[c].failed = {}
    /\ Len(call[c].requests) = 2
    /\ \A i \in 1..Len(call[c].fileContents) :
          codehashCache[call[c].fileContents[i].path] = EntryOf(call[c].fileContents[i])

\* This step keeps every entry of the cache in memory, unless it stores for
\* the path an entry with another codehash.
EntriesKept ==
  \A p \in Paths :
    codehashCache[p].has =>
      /\ codehashCache'[p].has
      /\ codehashCache'[p] # codehashCache[p]
           => codehashCache'[p].codehash # codehashCache[p].codehash

\* C23: no step of a call, in any sequence or interleaving of calls, takes
\* an entry out of the cache in memory or replaces one whose codehash has
\* not changed.
C23_CallsNeverRemoveEntries == [][EntriesKept]_vars

\* C23, what the code does: calls made one after the other keep the
\* entries; only a new repository starts from an empty cache.
C23_SequentialCallsKeepEntries ==
  [][(\E key \in BOOLEAN : Restart(key)) \/ EntriesKept]_vars

\* This step settles call c: the promise findClosestDartFiles returned is
\* resolved with the result or rejected with the error.
Settles(c) == InFlight(c) /\ call'[c].pc = "idle"

\* C24: a call settles only when its timer has fired, whatever its outcome,
\* the missing API key included, and however early its work has ended; and
\* a call whose work has ended and whose timer has fired does settle.
C24_SettlesWhenTimerHasFired ==
  /\ [][\A c \in Calls :
          Settles(c) => call[c].timer = "fired" /\ call[c].pc = "finally"]_vars
  /\ \A c \in Calls :
       (call[c].pc = "finally" /\ call[c].timer = "fired") ~> ~InFlight(c)

\* A call that has failed for want of an API key, before any await, is
\* held in its finally block: its timer has not fired yet.
C24_Witness ==
  \E c \in Calls :
    /\ call[c].pc = "finally"
    /\ call[c].outcome = "apiKey"
    /\ call[c].timer = "armed"

\* The call has ended in Error: an error was thrown and caught (lines
\* 255-257), the call is held in its finally block.
EndedInError(c) == call[c].pc = "finally" /\ call[c].outcome # "result"

\* The call has posted the message of its results (line 250).
ResultsPosted(c) == ResultsNotes(c) # <<>>

\* C25: once a call has ended in Error or has posted its results, the timer
\* callback posts nothing: no 'still working' message follows the results,
\* and none is posted for a call that has already failed.
C25_TimerSilentAfterResultsOrError ==
  [][\A c \in Calls :
       TimerFiredFor(c) /\ (EndedInError(c) \/ ResultsPosted(c))
       => call'[c].notes = call[c].notes]_vars

\* C25, what the timer callback does: it posts nothing once the results are
\* posted or the call has failed after saveCache; for a call that failed
\* before line 222 it posts the 'still working' message.
C25_TimerSilentAfterSave ==
  [][\A c \in Calls :
       TimerFiredFor(c) /\ (EndedInError(c) \/ ResultsPosted(c))
       => (StillWorkingPosted(c) <=> call[c].outcome \in {"apiKey", "read", "save"})]_vars

====
